---- MODULE Spec2Model ----
(***************************************************************************)
(* Model of the data-ingestion and metric-derivation pipeline of the       *)
(* energy audit dashboard (energy_audit_streamlit_app.py):                 *)
(*   load_station_data        the Loader, memoized by st.cache_data        *)
(*   calculate_daily_averages the Metrics Deriver                          *)
(*   show_overview, show_station_analysis   the two page handlers that     *)
(*                            call them on every script run                *)
(*   create_*_chart           the chart builders of the station page       *)
(*                                                                         *)
(* A spreadsheet cell is a record [k, v]:                                  *)
(*   k = "num"   a number (v), k = "nan"  a blank cell (NaN),              *)
(*   k = "tstr"  a text that reads as a date-time (minute v),              *)
(*   k = "str"   any other text ("n/a", "bad"),                            *)
(*   k = "ts"    a pandas Timestamp (minute v), k = "nat" pandas NaT.      *)
(* A float is a record [k, num, den]: k = "num" the reduced fraction       *)
(* num/den, k = "nan" NaN; floating-point rounding is not modelled.        *)
(***************************************************************************)
EXTENDS Integers, Sequences, FiniteSets, TLC

VARIABLES
    files,      \* the working directory: station -> workbook, or NoFile
    cache,      \* st.cache_data's store of load_station_data, by argument
    page,       \* the page the last script run rendered
    data,       \* what load_station_data returned in the last run, by station
    kpis,       \* what calculate_daily_averages returned in the last run
    errors,     \* the st.error / st.warning boxes of the last run, in order
    first,      \* history: what the first load of each station returned
    hit,        \* history: the stations the last run was served from the cache
    df,         \* SpecDerive: the table handed to calculate_daily_averages
    out,        \* SpecDerive: its result and the st.error boxes it raised
    prev,       \* SpecDerive: the result of the call before the last one
    given,      \* SpecDerive, history: the table as it was before any call
    calls,      \* SpecDerive: the number of calls made on the table
    metrics,    \* per station, the st.metric cards the page shows
    charts,     \* per station, what the chart builders gave the page, in call order
    fig         \* SpecChart: the builder called on df and what it gave

vars == <<files, cache, page, data, kpis, errors, first, hit, df, out, prev, given,
          calls, metrics, charts, fig>>

----------------------------------------------------------------------------
(* Bounds of the enumerated inputs *)

MaxCols == 2
MaxRows == 1
MaxDeriveCols == 1
MaxDeriveRows == 2
MaxCalls == 2
MaxChartCols == 4

----------------------------------------------------------------------------
(* Values *)

Stations == {"mvule", "clinic"}

None == [kind |-> "None"]
NotLoaded == [kind |-> "NotLoaded"]
NoFile == [kind |-> "NoFile"]

NaN == [k |-> "nan", v |-> 0]
NaT == [k |-> "nat", v |-> 0]
Num(n) == [k |-> "num", v |-> n]
Text == [k |-> "str", v |-> 0]
TimeText(m) == [k |-> "tstr", v |-> m]
Timestamp(m) == [k |-> "ts", v |-> m]

FloatNaN == [k |-> "nan", num |-> 0, den |-> 1]

RECURSIVE GCD(_, _)
GCD(a, b) == IF b = 0 THEN a ELSE GCD(b, a % b)

\* the float n/d (d > 0, n >= 0) as a reduced fraction
Float(n, d) ==
    LET g == GCD(n, d)
    IN  [k |-> "num", num |-> n \div g, den |-> d \div g]

Count(n) == [k |-> "int", num |-> n, den |-> 1]

isna(x) == x.k = "nan"

\* x / c for a float x and a positive integer c
Div(x, c) == IF isna(x) THEN FloatNaN ELSE Float(x.num, x.den * c)

----------------------------------------------------------------------------
(* DataFrames: ordered columns, one cell sequence per column, and an index *)

DataFrame(cols, cells, idx, idxName) ==
    [kind |-> "DataFrame", columns |-> cols, cells |-> cells,
     index |-> idx, indexName |-> idxName]

IsDataFrame(x) == x.kind = "DataFrame"

\* the width of the table instead of its length
len_columns(d) == Len(d.columns)

len(d) == Len(d.index)

\* DataFrame.empty: any axis of length 0
empty(d) == Len(d.columns) = 0 \/ Len(d.index) = 0

HasColumn(d, name) == \E i \in 1..Len(d.columns) : d.columns[i] = name

ColumnPos(d, name) == CHOOSE i \in 1..Len(d.columns) : d.columns[i] = name

Column(d, name) == d.cells[ColumnPos(d, name)]

RangeIndex(n) == [i \in 1..n |-> Num(i - 1)]

Remove(s, i) == [j \in 1..(Len(s) - 1) |-> IF j < i THEN s[j] ELSE s[j + 1]]

----------------------------------------------------------------------------
(* The Loader *)

file_path(station) ==
    IF station = "mvule" THEN "MVULE corrected time.xlsx"
    ELSE "Clinic corrected time.xlsx"

FileOf(path) == IF path = "MVULE corrected time.xlsx" THEN "mvule" ELSE "clinic"

exists(fs, path) == fs[FileOf(path)] # NoFile

read_excel(fs, path) == fs[FileOf(path)]

time_columns ==
    << "Stop(E. Africa Standard Time)",
       "Start/Stop(E. Africa Standard Time)",
       "Time",
       "DateTime",
       "Timestamp" >>

\* the for/break loop: the first name of time_columns that is a column, or None
RECURSIVE FindTimeCol(_, _)
FindTimeCol(d, i) ==
    IF i > Len(time_columns) THEN "None"
    ELSE IF HasColumn(d, time_columns[i]) THEN time_columns[i]
    ELSE FindTimeCol(d, i + 1)

\* a scan in the order of the file's header instead of the priority list
RECURSIVE FindTimeColInFileOrder(_, _)
FindTimeColInFileOrder(d, i) ==
    IF i > Len(d.columns) THEN "None"
    ELSE IF \E j \in 1..Len(time_columns) : time_columns[j] = d.columns[i]
         THEN d.columns[i]
    ELSE FindTimeColInFileOrder(d, i + 1)

time_col_file_order(d) == FindTimeColInFileOrder(d, 1)

\* a scan that falls back on the first column when no candidate is present
time_col_fallback(d) ==
    IF FindTimeCol(d, 1) = "None" /\ Len(d.columns) > 0 THEN d.columns[1]
    ELSE FindTimeCol(d, 1)

time_col(d) == FindTimeCol(d, 1)

\* pd.to_datetime on one cell: texts are parsed, numbers are nanoseconds since
\* the epoch (minute 0 at this scale), blanks become NaT
ParseCell(c) ==
    CASE c.k = "tstr" -> Timestamp(c.v)
      [] c.k = "ts"   -> c
      [] c.k = "num"  -> Timestamp(0)
      [] OTHER        -> NaT

\* pd.to_datetime raises (errors='raise') on a text that is no date-time
Unparseable(c) == c.k = "str"

to_datetime_raises(col) == \E i \in 1..Len(col) : Unparseable(col[i])

to_datetime(col) == [i \in 1..Len(col) |-> ParseCell(col[i])]

\* df.set_index(name) after df[name] = pd.to_datetime(df[name])
set_index(d, name) ==
    LET p == ColumnPos(d, name)
    IN  DataFrame(Remove(d.columns, p), Remove(d.cells, p),
                  to_datetime(d.cells[p]), name)

Msg(level, text, station) == [level |-> level, text |-> text, station |-> station]

Returned(value, msgs) == [value |-> value, msgs |-> msgs]

\* the body without the file_path.exists() test: read_excel raises on the
\* missing file and the except clause reports it
LoadBody_no_exists_test(fs, station) ==
    LET path == file_path(station)
    IN  IF ~exists(fs, path)
        THEN Returned(None, << Msg("error", "Error loading data", station) >>)
        ELSE LET d == read_excel(fs, path)
                 tc == time_col(d)
             IN  IF tc # "None"
                 THEN IF to_datetime_raises(Column(d, tc))
                      THEN Returned(None, << Msg("error", "Error loading data", station) >>)
                      ELSE Returned(set_index(d, tc), << >>)
                 ELSE Returned(None, << Msg("error", "Time column not found", station) >>)

\* the body without the else branch of "if time_col": set_index(None) raises
\* and the except clause reports it
LoadBody_no_else_branch(fs, station) ==
    LET path == file_path(station)
    IN  IF exists(fs, path)
        THEN LET d == read_excel(fs, path)
                 tc == time_col(d)
             IN  IF tc # "None" /\ ~to_datetime_raises(Column(d, tc))
                 THEN Returned(set_index(d, tc), << >>)
                 ELSE Returned(None, << Msg("error", "Error loading data", station) >>)
        ELSE Returned(None, << Msg("error", "File not found", station) >>)

\* the body of load_station_data: the value it returns and the boxes it shows
LoadBody(fs, station) ==
    LET path == file_path(station)
    IN  IF exists(fs, path)
        THEN LET d == read_excel(fs, path)
                 tc == time_col(d)
             IN  IF tc # "None"
                 THEN IF to_datetime_raises(Column(d, tc))
                      THEN Returned(None, << Msg("error", "Error loading data", station) >>)
                      ELSE Returned(set_index(d, tc), << >>)
                 ELSE Returned(None, << Msg("error", "Time column not found", station) >>)
        ELSE Returned(None, << Msg("error", "File not found", station) >>)

\* one entry for every argument
CacheKey_one_slot(station) == "mvule"

\* st.cache_data keys an entry by the function's argument
CacheKey(station) == station

NotCached == [cached |-> FALSE, value |-> None, msgs |-> << >>]

\* a call of the decorated load_station_data: a hit returns a copy of the stored
\* value and replays the stored boxes, a miss runs the body and stores both
load_station_data(c, fs, station) ==
    LET key == CacheKey(station)
    IN  IF c[key].cached
        THEN [value |-> c[key].value, msgs |-> c[key].msgs, hit |-> TRUE, cache |-> c]
        ELSE LET r == LoadBody(fs, station)
             IN  [value |-> r.value, msgs |-> r.msgs, hit |-> FALSE,
                  cache |-> [c EXCEPT ![key] =
                               [cached |-> TRUE, value |-> r.value, msgs |-> r.msgs]]]

----------------------------------------------------------------------------
(* The Metrics Deriver *)

Indicators ==
    {"avg_power", "avg_pf", "avg_voltage", "avg_current",
     "avg_frequency", "avg_vthd", "avg_ithd"}

KpiKeys == Indicators \cup {"data_points"}

\* the column each indicator is read from
SourceColumn(name) ==
    CASE name = "avg_power"     -> "PowerP_Total_avg"
      [] name = "avg_pf"        -> "PfFwdRev_Total_avg"
      [] name = "avg_voltage"   -> "Vrms_AN_avg"
      [] name = "avg_current"   -> "Irms_A_avg"
      [] name = "avg_frequency" -> "Frequency_avg"
      [] name = "avg_vthd"      -> "Vthd_AN_avg"
      [] name = "avg_ithd"      -> "Ithd_A_avg"

EmptySeries == << >>

\* a default of one zero instead of the empty Series
get_zero_default(d, name, default) ==
    IF HasColumn(d, name) THEN Column(d, name) ELSE << Num(0) >>

\* df.get(name, default): the column when present, else the default
get(d, name, default) == IF HasColumn(d, name) THEN Column(d, name) ELSE default

RECURSIVE SumNum(_, _)
SumNum(col, i) ==
    IF i > Len(col) THEN 0
    ELSE (IF col[i].k = "num" THEN col[i].v ELSE 0) + SumNum(col, i + 1)

CountNum(col) == Cardinality({i \in 1..Len(col) : col[i].k = "num"})

\* Series.mean() adds a text cell to a number and raises TypeError
mean_raises(col) == \E i \in 1..Len(col) : col[i].k \in {"str", "tstr"}

\* Series.mean(), skipna=True: NaN cells leave the sum and the count; the mean of
\* no values is NaN
mean(col) ==
    IF CountNum(col) = 0 THEN FloatNaN ELSE Float(SumNum(col, 1), CountNum(col))

EmptyDict == << >>

\* dict.get(key, default)
dictget(dict, key, default) == IF key \in DOMAIN dict THEN dict[key] ELSE default

\* the dict literal of lines 150-159
KpiLiteral(d) ==
    [name \in KpiKeys |->
        IF name = "data_points" THEN Count(len(d))
        ELSE mean(get(d, SourceColumn(name), EmptySeries))]

\* the mean left in watts
ConvertPower_left_in_watts(dict) == dict

\* lines 161-163: W to kW, after averaging, unless the mean is NaN
ConvertPower(dict) ==
    IF "avg_power" \in DOMAIN dict /\ ~isna(dict["avg_power"])
    THEN [dict EXCEPT !["avg_power"] = Div(dict["avg_power"], 1000)]
    ELSE dict

KpiRaises(d) ==
    \E name \in Indicators : mean_raises(get(d, SourceColumn(name), EmptySeries))

\* a derive that converts the power column to kW in place, in the caller's table
TableAfterDerive_in_place_kw(d) ==
    IF d = None THEN d
    ELSE [d EXCEPT !.cells =
            [i \in 1..Len(d.columns) |->
                IF d.columns[i] = "PowerP_Total_avg"
                THEN [r \in 1..Len(d.cells[i]) |->
                        IF d.cells[i][r].k = "num"
                        THEN Num(d.cells[i][r].v \div 1000) ELSE d.cells[i][r]]
                ELSE d.cells[i]]]

\* the caller's table after a call: the function reads it (df.empty, df.get,
\* len) and assigns nothing to it
TableAfterDerive(d) == d

\* calculate_daily_averages: the dict it returns and the boxes it shows
calculate_daily_averages(d) ==
    IF d = None \/ empty(d)
    THEN Returned(EmptyDict, << >>)
    ELSE IF KpiRaises(d)
         THEN Returned(EmptyDict, << Msg("error", "Error calculating averages", "") >>)
         ELSE Returned(ConvertPower(KpiLiteral(d)), << >>)

----------------------------------------------------------------------------
(* The enumerated inputs *)

ValueColumn == "PowerP_Total_avg"

IsTimeName(name) == \E i \in 1..Len(time_columns) : time_columns[i] = name

WorkbookColumns == {time_columns[i] : i \in 1..Len(time_columns)} \cup {ValueColumn}

\* the cells a workbook may hold in a column of that name
TimeCells == {TimeText(10), Text, NaN}
WorkbookCells(name) == IF IsTimeName(name) THEN TimeCells ELSE {Num(1000)}

\* header rows: up to MaxCols distinct column names, in any order
Layouts ==
    UNION { {L \in [1..k -> WorkbookColumns] :
                \A i, j \in 1..k : i # j => L[i] # L[j]} : k \in 0..MaxCols }

\* the cell grids of a workbook with header L and n rows
WorkbookGrids(L, n) ==
    {f \in [1..Len(L) -> [1..n -> TimeCells \cup {Num(1000)}]] :
        \A i \in 1..Len(L) : \A r \in 1..n : f[i][r] \in WorkbookCells(L[i])}

\* a workbook as pd.read_excel parses it: a RangeIndex, the columns as in the file
Workbook(L, n, cells) == DataFrame(L, cells, RangeIndex(n), "")

\* the workbooks the dashboard runs are checked on: a good one, one with no
\* time column, one whose time column holds a text that is no date-time, one
\* with a text in a measured column, one with a header and no rows, and a
\* second good one under another time-column name
GoodWorkbook ==
    Workbook(<< "Time", ValueColumn >>, 1, << << TimeText(10) >>, << Num(1000) >> >>)

NoTimeWorkbook == Workbook(<< ValueColumn >>, 1, << << Num(1000) >> >>)

BadTimeWorkbook ==
    Workbook(<< "Time", ValueColumn >>, 1, << << Text >>, << Num(1000) >> >>)

TextPowerWorkbook ==
    Workbook(<< "Time", ValueColumn >>, 1, << << TimeText(10) >>, << Text >> >>)

HeaderOnlyWorkbook == Workbook(<< "Time", ValueColumn >>, 0, << << >>, << >> >>)

OtherGoodWorkbook ==
    Workbook(<< ValueColumn, "Timestamp" >>, 2,
             << << Num(1000), Num(3000) >>, << TimeText(10), TimeText(20) >> >>)

SampleSources ==
    {NoFile, GoodWorkbook, NoTimeWorkbook, BadTimeWorkbook, TextPowerWorkbook,
     HeaderOnlyWorkbook, OtherGoodWorkbook}

\* the source columns in a fixed order
SourceColumns ==
    << "PowerP_Total_avg", "PfFwdRev_Total_avg", "Vrms_AN_avg", "Irms_A_avg",
       "Frequency_avg", "Vthd_AN_avg", "Ithd_A_avg" >>

DeriveCells == {Num(1000), Num(3000), NaN, Text}

\* up to MaxDeriveCols source columns, in the order of SourceColumns
DeriveLayouts ==
    UNION { {[i \in 1..k |-> SourceColumns[P[i]]] :
                P \in {Q \in [1..k -> 1..Len(SourceColumns)] :
                         \A i, j \in 1..k : i < j => Q[i] < Q[j]}} :
            k \in 0..MaxDeriveCols }

\* a table as the Loader returns it: indexed by the parsed time column
LoadedTable(L, n, cells) == DataFrame(L, cells, [r \in 1..n |-> Timestamp(10)], "Time")

----------------------------------------------------------------------------
(* The chart builders *)

\* pat in s, for two Python strings
In(pat, s) ==
    \E i \in 1..(Len(s) - Len(pat) + 1) : SubSeq(s, i, i + Len(pat) - 1) = pat

Figure(traces) == [kind |-> "Figure", traces |-> traces]

\* the call ended with this exception
Raised(error) == [kind |-> "Raised", error |-> error]

\* go.Scatter(x=df.index, y=..., line=dict(color=...)) for one column
Scatter(col, y, color) == [column |-> col, y |-> y, color |-> color]

is_vthd(col) == In("Vthd", col) /\ In("avg", col)
is_vln(col) == In("Vrms_AN_avg", col) \/ In("Vrms_BN_avg", col) \/ In("Vrms_CN_avg", col)
is_vll(col) == In("Vrms_AB_avg", col) \/ In("Vrms_BC_avg", col) \/ In("Vrms_CA_avg", col)
is_current(col) == In("Irms_A_avg", col) \/ In("Irms_B_avg", col) \/ In("Irms_C_avg", col)
is_ithd(col) == In("Ithd", col) /\ In("avg", col)
is_pf(col) == In("PfFwdRev", col) /\ In("avg", col)
is_power(col) == In("PowerP_", col) /\ In("avg", col)

\* df[col] / 1000 adds nothing to a text cell: it raises TypeError
div_raises(col) == \E r \in 1..Len(col) : col[r].k \in {"str", "tstr"}

\* df[col] / 1000, cell by cell
InKilowatts(col) ==
    [r \in 1..Len(col) |-> IF col[r].k = "num" THEN Float(col[r].v, 1000) ELSE FloatNaN]

\* the loop "for i, col in enumerate(cols): fig.add_trace(... colors[i] ...)",
\* from the i-th column on; the arguments of go.Scatter are evaluated in the
\* order written, y before line
RECURSIVE add_traces(_, _, _, _, _, _)
add_traces(d, cols, colors, kw, i, traces) ==
    IF i > Len(cols) THEN Figure(traces)
    ELSE IF kw /\ div_raises(Column(d, cols[i])) THEN Raised("TypeError")
    ELSE IF i > Len(colors) THEN Raised("IndexError")
    ELSE add_traces(d, cols, colors, kw, i + 1,
                    Append(traces,
                           Scatter(cols[i],
                                   IF kw THEN InKilowatts(Column(d, cols[i]))
                                   ELSE Column(d, cols[i]),
                                   colors[i])))

create_frequency_chart(d) ==
    IF d = None \/ empty(d) \/ ~HasColumn(d, "Frequency_avg") THEN None
    ELSE Figure(<< Scatter("Frequency_avg", Column(d, "Frequency_avg"), "blue") >>)

create_voltage_thd_chart(d) ==
    IF d = None \/ empty(d) THEN None
    ELSE add_traces(d, SelectSeq(d.columns, is_vthd),
                    << "red", "green", "blue" >>, FALSE, 1, << >>)

create_voltage_analysis_chart(d) ==
    IF d = None \/ empty(d) THEN None
    ELSE add_traces(d, SelectSeq(d.columns, is_vln),
                    << "red", "green", "blue" >>, FALSE, 1, << >>)

create_line_to_line_voltage_chart(d) ==
    IF d = None \/ empty(d) THEN None
    ELSE add_traces(d, SelectSeq(d.columns, is_vll),
                    << "purple", "orange", "brown" >>, FALSE, 1, << >>)

create_current_analysis_chart(d) ==
    IF d = None \/ empty(d) THEN None
    ELSE add_traces(d, SelectSeq(d.columns, is_current),
                    << "red", "green", "blue" >>, FALSE, 1, << >>)

create_current_thd_chart(d) ==
    IF d = None \/ empty(d) THEN None
    ELSE add_traces(d, SelectSeq(d.columns, is_ithd),
                    << "purple", "orange", "brown" >>, FALSE, 1, << >>)

\* every trace is blue: no colour list is indexed
create_power_factor_chart(d) ==
    IF d = None \/ empty(d) THEN None
    ELSE LET cols == SelectSeq(d.columns, is_pf)
         IN  Figure([i \in 1..Len(cols) |-> Scatter(cols[i], Column(d, cols[i]), "blue")])

create_active_power_chart(d) ==
    IF d = None \/ empty(d) THEN None
    ELSE add_traces(d, SelectSeq(d.columns, is_power),
                    << "red", "green", "blue", "purple" >>, TRUE, 1, << >>)

Builders ==
    { "create_frequency_chart", "create_voltage_thd_chart",
      "create_voltage_analysis_chart", "create_line_to_line_voltage_chart",
      "create_current_analysis_chart", "create_current_thd_chart",
      "create_power_factor_chart", "create_active_power_chart" }

\* the call builder(df, station)
Build(builder, d) ==
    CASE builder = "create_frequency_chart" -> create_frequency_chart(d)
      [] builder = "create_voltage_thd_chart" -> create_voltage_thd_chart(d)
      [] builder = "create_voltage_analysis_chart" -> create_voltage_analysis_chart(d)
      [] builder = "create_line_to_line_voltage_chart" ->
            create_line_to_line_voltage_chart(d)
      [] builder = "create_current_analysis_chart" -> create_current_analysis_chart(d)
      [] builder = "create_current_thd_chart" -> create_current_thd_chart(d)
      [] builder = "create_power_factor_chart" -> create_power_factor_chart(d)
      [] builder = "create_active_power_chart" -> create_active_power_chart(d)

\* the builder calls of the five tabs of show_station_analysis, in order
TabCharts ==
    << "create_frequency_chart", "create_voltage_thd_chart",
       "create_voltage_analysis_chart", "create_line_to_line_voltage_chart",
       "create_current_analysis_chart", "create_current_thd_chart",
       "create_voltage_thd_chart", "create_current_thd_chart",
       "create_power_factor_chart", "create_active_power_chart" >>

\* the calls from the i-th on: an exception of a builder is caught by nobody
\* and ends the script run
RECURSIVE RunCharts(_, _)
RunCharts(d, i) ==
    IF i > Len(TabCharts) THEN << >>
    ELSE LET r == Build(TabCharts[i], d)
         IN  IF r.kind = "Raised" THEN << r >> ELSE << r >> \o RunCharts(d, i + 1)

\* column names a workbook of the power logger may hold that the builders look at
ChartColumns ==
    << "Vthd_AN_avg", "Vthd_BN_avg", "Vthd_CN_avg", "Vthd_NG_avg", "Vthd_AN_max",
       "Ithd_A_avg", "Vrms_AN_avg", "Vrms_AB_avg", "Irms_A_avg", "PowerP_Total_avg" >>

\* up to MaxChartCols of them, in the order of ChartColumns
ChartLayouts ==
    UNION { {[i \in 1..k |-> ChartColumns[P[i]]] :
                P \in {Q \in [1..k -> 1..Len(ChartColumns)] :
                         \A i, j \in 1..k : i < j => Q[i] < Q[j]}} :
            k \in 0..MaxChartCols }

\* a loaded table with n rows whose columns in texty hold a text in every row
ChartTable(L, n, texty) ==
    LoadedTable(L, n, [i \in 1..Len(L) |->
                         [r \in 1..n |-> IF i \in texty THEN Text ELSE Num(1000)]])

----------------------------------------------------------------------------
(* The dashboard: one action per script run *)

PageOf(station) == IF station = "mvule" THEN "Mvule Station" ELSE "Clinic Station"

Remember(h, station, value) ==
    IF h[station] = NotLoaded THEN [h EXCEPT ![station] = value] ELSE h

RECURSIVE Pow10(_)
Pow10(e) == IF e = 0 THEN 1 ELSE 10 * Pow10(e - 1)

\* a format that shows a value that is not a number as zero
format_nan_as_zero(x, decimals) ==
    IF isna(x) THEN [k |-> "num", scaled |-> 0, decimals |-> decimals]
    ELSE LET q == (x.num * Pow10(decimals)) \div x.den
             r == (x.num * Pow10(decimals)) % x.den
         IN  [k |-> "num",
              scaled |-> IF 2 * r > x.den \/ (2 * r = x.den /\ q % 2 = 1)
                         THEN q + 1 ELSE q,
              decimals |-> decimals]

\* f"{x:.<decimals>f}": "nan" for NaN, else the value rounded to the given
\* number of decimals (ties to even), kept as the integer scaled by 10^decimals
format(x, decimals) ==
    IF isna(x) THEN [k |-> "nan", scaled |-> 0, decimals |-> decimals]
    ELSE LET q == (x.num * Pow10(decimals)) \div x.den
             r == (x.num * Pow10(decimals)) % x.den
         IN  [k |-> "num",
              scaled |-> IF 2 * r > x.den \/ (2 * r = x.den /\ q % 2 = 1)
                         THEN q + 1 ELSE q,
              decimals |-> decimals]

\* the st.metric cards of show_overview, in the order they are drawn
OverviewCards ==
    << [key |-> "avg_power", decimals |-> 1, unit |-> " kW"],
       [key |-> "avg_pf", decimals |-> 2, unit |-> ""],
       [key |-> "avg_voltage", decimals |-> 0, unit |-> " V"] >>

\* the st.metric cards of show_station_analysis
StationCards ==
    OverviewCards \o << [key |-> "avg_current", decimals |-> 1, unit |-> " A"] >>

\* st.metric(label, f"{kpis.get(key, 0):.<decimals>f}<unit>") for each card
Metrics(dict, cards) ==
    [i \in 1..Len(cards) |->
        [key |-> cards[i].key,
         text |-> format(dictget(dict, cards[i].key, Count(0)), cards[i].decimals),
         unit |-> cards[i].unit]]

\* the KPI cards of show_overview: a warning when the dict is empty
OverviewBoxes(dict, station) ==
    IF dict # EmptyDict THEN << >>
    ELSE << Msg("warning", "No data available", station) >>

Init ==
    /\ files \in [Stations -> SampleSources]
    /\ cache = [s \in Stations |-> NotCached]
    /\ page = "none"
    /\ data = [s \in Stations |-> NotLoaded]
    /\ kpis = [s \in Stations |-> NotLoaded]
    /\ errors = << >>
    /\ first = [s \in Stations |-> NotLoaded]
    /\ hit = {}
    /\ df = None
    /\ out = NotLoaded
    /\ prev = NotLoaded
    /\ given = None
    /\ calls = 0
    /\ metrics = [s \in Stations |-> << >>]
    /\ charts = [s \in Stations |-> << >>]
    /\ fig = NotLoaded

\* show_overview: load both stations, derive both, render the two KPI columns
ShowOverview ==
    LET m  == load_station_data(cache, files, "mvule")
        c  == load_station_data(m.cache, files, "clinic")
        mk == calculate_daily_averages(m.value)
        ck == calculate_daily_averages(c.value)
    IN  /\ page' = "Overview"
        /\ cache' = c.cache
        /\ data' = [s \in Stations |-> IF s = "mvule" THEN m.value ELSE c.value]
        /\ kpis' = [s \in Stations |-> IF s = "mvule" THEN mk.value ELSE ck.value]
        /\ errors' = m.msgs \o c.msgs \o mk.msgs \o ck.msgs
                       \o OverviewBoxes(mk.value, "mvule")
                       \o OverviewBoxes(ck.value, "clinic")
        /\ first' = Remember(Remember(first, "mvule", m.value), "clinic", c.value)
        /\ hit' = {s \in Stations : IF s = "mvule" THEN m.hit ELSE c.hit}
        /\ metrics' = [s \in Stations |->
                         LET dict == IF s = "mvule" THEN mk.value ELSE ck.value
                         IN  IF dict # EmptyDict THEN Metrics(dict, OverviewCards)
                             ELSE << >>]
        /\ charts' = [s \in Stations |-> << >>]
        /\ UNCHANGED <<files, df, out, prev, given, calls, fig>>

\* show_station_analysis(station, station_name): load, derive, and stop with an
\* error box when there is no table or it is empty
ShowStationAnalysis(station) ==
    LET l == load_station_data(cache, files, station)
        k == calculate_daily_averages(l.value)
    IN  /\ page' = PageOf(station)
        /\ cache' = l.cache
        /\ data' = [s \in Stations |-> IF s = station THEN l.value ELSE NotLoaded]
        /\ kpis' = [s \in Stations |-> IF s = station THEN k.value ELSE NotLoaded]
        /\ errors' = l.msgs \o k.msgs \o
                       (IF l.value = None \/ empty(l.value)
                        THEN << Msg("error", "No data available", station) >>
                        ELSE << >>)
        /\ first' = Remember(first, station, l.value)
        /\ hit' = IF l.hit THEN {station} ELSE {}
        /\ metrics' = [s \in Stations |->
                         IF s # station \/ l.value = None \/ empty(l.value)
                         THEN << >>
                         ELSE Metrics(k.value, StationCards)]
        /\ charts' = [s \in Stations |->
                        IF s # station \/ l.value = None \/ empty(l.value)
                        THEN << >>
                        ELSE RunCharts(l.value, 1)]
        /\ UNCHANGED <<files, df, out, prev, given, calls, fig>>

Next ==
    \/ ShowOverview
    \/ \E station \in Stations : ShowStationAnalysis(station)

Spec == Init /\ [][Next]_vars

----------------------------------------------------------------------------
(* The Loader on its own: one call, over every enumerated workbook *)

InitLoad ==
    /\ \E station \in Stations :
          \/ files = [s \in Stations |-> NoFile]
          \/ \E L \in Layouts, n \in 0..MaxRows :
                \E cells \in WorkbookGrids(L, n) :
                   files = [s \in Stations |->
                              IF s = station THEN Workbook(L, n, cells) ELSE NoFile]
    /\ cache = [s \in Stations |-> NotCached]
    /\ page = "none"
    /\ data = [s \in Stations |-> NotLoaded]
    /\ kpis = [s \in Stations |-> NotLoaded]
    /\ errors = << >>
    /\ first = [s \in Stations |-> NotLoaded]
    /\ hit = {}
    /\ df = None
    /\ out = NotLoaded
    /\ prev = NotLoaded
    /\ given = None
    /\ calls = 0
    /\ metrics = [s \in Stations |-> << >>]
    /\ charts = [s \in Stations |-> << >>]
    /\ fig = NotLoaded

\* one call load_station_data(station)
Load(station) ==
    LET l == load_station_data(cache, files, station)
    IN  /\ \A s \in Stations : data[s] = NotLoaded
        /\ cache' = l.cache
        /\ data' = [data EXCEPT ![station] = l.value]
        /\ errors' = l.msgs
        /\ first' = Remember(first, station, l.value)
        /\ hit' = IF l.hit THEN {station} ELSE {}
        /\ UNCHANGED <<files, page, kpis, df, out, prev, given, calls, metrics, charts, fig>>

NextLoad == \E station \in Stations : Load(station)

SpecLoad == InitLoad /\ [][NextLoad]_vars

----------------------------------------------------------------------------
(* The Metrics Deriver on its own, over every enumerated table *)

InitDerive ==
    /\ files = [s \in Stations |-> NoFile]
    /\ cache = [s \in Stations |-> NotCached]
    /\ page = "none"
    /\ data = [s \in Stations |-> NotLoaded]
    /\ kpis = [s \in Stations |-> NotLoaded]
    /\ errors = << >>
    /\ first = [s \in Stations |-> NotLoaded]
    /\ hit = {}
    /\ \/ df = None
       \/ \E L \in DeriveLayouts, n \in 0..MaxDeriveRows :
             \E cells \in [1..Len(L) -> [1..n -> DeriveCells]] :
                df = LoadedTable(L, n, cells)
    /\ given = df
    /\ out = NotLoaded
    /\ prev = NotLoaded
    /\ calls = 0
    /\ metrics = [s \in Stations |-> << >>]
    /\ charts = [s \in Stations |-> << >>]
    /\ fig = NotLoaded

\* one call calculate_daily_averages(df) on the caller's table, which the callee
\* receives by reference
Derive ==
    /\ calls < MaxCalls
    /\ out' = calculate_daily_averages(df)
    /\ prev' = out
    /\ df' = TableAfterDerive(df)
    /\ calls' = calls + 1
    /\ UNCHANGED <<files, cache, page, data, kpis, errors, first, hit, given, metrics,
                   charts, fig>>

NextDerive == Derive

SpecDerive == InitDerive /\ [][NextDerive]_vars

----------------------------------------------------------------------------
(* The chart builders on their own, over every enumerated table *)

InitChart ==
    /\ files = [s \in Stations |-> NoFile]
    /\ cache = [s \in Stations |-> NotCached]
    /\ page = "none"
    /\ data = [s \in Stations |-> NotLoaded]
    /\ kpis = [s \in Stations |-> NotLoaded]
    /\ errors = << >>
    /\ first = [s \in Stations |-> NotLoaded]
    /\ hit = {}
    /\ \/ df = None
       \/ \E L \in ChartLayouts, n \in 0..MaxRows :
             \E texty \in SUBSET (1..Len(L)) :
                df = ChartTable(L, n, texty)
    /\ given = df
    /\ out = NotLoaded
    /\ prev = NotLoaded
    /\ calls = 0
    /\ metrics = [s \in Stations |-> << >>]
    /\ charts = [s \in Stations |-> << >>]
    /\ fig = NotLoaded

\* one call builder(df, station)
Chart(builder) ==
    /\ fig = NotLoaded
    /\ fig' = [kind |-> "Called", builder |-> builder, result |-> Build(builder, df)]
    /\ UNCHANGED <<files, cache, page, data, kpis, errors, first, hit, df, out, prev,
                   given, calls, metrics, charts>>

NextChart == \E builder \in Builders : Chart(builder)

SpecChart == InitChart /\ [][NextChart]_vars

----------------------------------------------------------------------------
(* Properties of the Loader (SpecLoad) *)

Called(s) == data[s] # NotLoaded

CandidateNames ==
    {"Stop(E. Africa Standard Time)", "Start/Stop(E. Africa Standard Time)",
     "Time", "DateTime", "Timestamp"}

\* the rank of a candidate name in the documented priority list
Rank(name) ==
    CASE name = "Stop(E. Africa Standard Time)"       -> 1
      [] name = "Start/Stop(E. Africa Standard Time)" -> 2
      [] name = "Time"                                -> 3
      [] name = "DateTime"                            -> 4
      [] name = "Timestamp"                           -> 5

CandidatesIn(w) == {w.columns[i] : i \in 1..Len(w.columns)} \cap CandidateNames

\* the candidate of w that ranks first
Best(w) == CHOOSE name \in CandidatesIn(w) :
              \A other \in CandidatesIn(w) : Rank(name) <= Rank(other)

CellsOf(w, name) == w.cells[CHOOSE i \in 1..Len(w.columns) : w.columns[i] = name]

\* C1: a load of a station whose backing file is absent returns no table: it
\* returns None and reports "File not found" for that station.
C1_AbsentFileFails ==
    \A s \in Stations :
        (Called(s) /\ files[s] = NoFile) =>
            /\ ~IsDataFrame(data[s])
            /\ data[s] = None
            /\ errors = << Msg("error", "File not found", s) >>

C1_Witness ==
    \E s \in Stations : Called(s) /\ files[s] = NoFile /\ data[s] = None

\* C2: a load of a workbook that has none of the five candidate time-column
\* names returns no table: it returns None and reports "Time column not found".
C2_NoTimeColumnFails ==
    \A s \in Stations :
        (Called(s) /\ IsDataFrame(files[s]) /\ CandidatesIn(files[s]) = {}) =>
            /\ data[s] = None
            /\ errors = << Msg("error", "Time column not found", s) >>

C2_Witness ==
    \E s \in Stations :
        /\ Called(s) /\ IsDataFrame(files[s]) /\ CandidatesIn(files[s]) = {}
        /\ Len(files[s].columns) > 0 /\ Len(files[s].index) > 0
        /\ data[s] = None

\* C5: when the workbook has several candidate time columns, the one that ranks
\* first in the priority list is the one selected, whatever the order of the
\* columns in the file: it alone is parsed (a text in it fails the load, a text
\* in a lower-ranked candidate does not), it becomes the index of the returned
\* table, and the other columns stay as they were, in order.
C5_FirstInPriorityWins ==
    \A s \in Stations :
        (Called(s) /\ IsDataFrame(files[s]) /\ CandidatesIn(files[s]) # {}) =>
            LET w == files[s]
                best == Best(w)
                hasText == \E r \in 1..Len(w.index) : CellsOf(w, best)[r].k = "str"
            IN  /\ hasText <=> data[s] = None
                /\ ~hasText =>
                     /\ IsDataFrame(data[s])
                     /\ data[s].indexName = best
                     /\ Len(data[s].columns) = Len(w.columns) - 1
                     /\ \A i \in 1..Len(data[s].columns) :
                           /\ data[s].columns[i] # best
                           /\ data[s].cells[i] = CellsOf(w, data[s].columns[i])
                     /\ \A i, j \in 1..Len(data[s].columns) :
                           \A k, l \in 1..Len(w.columns) :
                              (i < j /\ w.columns[k] = data[s].columns[i]
                                     /\ w.columns[l] = data[s].columns[j]) => k < l

\* two candidates, the lower-ranked one first in the file, and a table came back
C5_Witness ==
    \E s \in Stations :
        /\ Called(s) /\ IsDataFrame(files[s]) /\ IsDataFrame(data[s])
        /\ Len(files[s].columns) = 2
        /\ files[s].columns[1] \in CandidateNames
        /\ files[s].columns[2] \in CandidateNames
        /\ Rank(files[s].columns[2]) < Rank(files[s].columns[1])
        /\ data[s].indexName = files[s].columns[2]
        /\ data[s].columns = << files[s].columns[1] >>

\* a cell that is not a point in time: a blank, or a text that is no date-time
NotATime(c) == c.k \in {"nan", "str"}

\* C6: if any value of the selected time column cannot be parsed as a timestamp
\* the whole load fails, and a returned table has every row of the workbook with
\* a parsed timestamp as its key.
C6_AnyUnparsedValueFails ==
    \A s \in Stations :
        (Called(s) /\ IsDataFrame(files[s]) /\ CandidatesIn(files[s]) # {}) =>
            LET w == files[s]
                col == CellsOf(w, Best(w))
            IN  /\ (\E r \in 1..Len(col) : NotATime(col[r])) => data[s] = None
                /\ IsDataFrame(data[s]) =>
                     /\ Len(data[s].index) = Len(w.index)
                     /\ \A r \in 1..Len(data[s].index) : data[s].index[r].k = "ts"

----------------------------------------------------------------------------
(* Properties of the dashboard runs (Spec) *)

InBoxes(m) == \E i \in 1..Len(errors) : errors[i] = m

\* why a load of station s cannot give a table, from the working directory alone
Cause(s) ==
    IF files[s] = NoFile THEN "file absent"
    ELSE IF CandidatesIn(files[s]) = {} THEN "no time column"
    ELSE IF \E r \in 1..Len(files[s].index) :
               CellsOf(files[s], Best(files[s]))[r].k = "str"
         THEN "unparseable time"
    ELSE "none"

BoxText(cause) ==
    CASE cause = "file absent"      -> "File not found"
      [] cause = "no time column"   -> "Time column not found"
      [] cause = "unparseable time" -> "Error loading data"

\* a text cell in one of the seven source columns of a table
TextInSource(d) ==
    \E i \in 1..Len(d.columns) :
        /\ d.columns[i] \in {SourceColumns[j] : j \in 1..Len(SourceColumns)}
        /\ \E r \in 1..Len(d.cells[i]) : d.cells[i][r].k = "str"

\* C3 as stated: two loads that fail for different reasons give the caller
\* different results.
C3_FailuresDistinctToCaller ==
    \A s, t \in Stations :
        (Called(s) /\ Called(t) /\ Cause(s) # "none" /\ Cause(t) # "none"
            /\ Cause(s) # Cause(t)) => data[s] # data[t]

\* C3, amended: every failed load returns the same value None, whatever the
\* reason; the reason is told only by the error box the Loader itself shows
\* ("File not found", "Time column not found", "Error loading data"). A failed
\* derive returns the empty dict, as it does for None and for an empty table,
\* and shows "Error calculating averages". Nothing is raised to the caller.
C3_FailuresReportedInBoxes ==
    \A s \in Stations :
        Called(s) =>
            /\ Cause(s) # "none" =>
                 /\ data[s] = None
                 /\ InBoxes(Msg("error", BoxText(Cause(s)), s))
                 /\ kpis[s] = EmptyDict
            /\ Cause(s) = "none" =>
                 /\ IsDataFrame(data[s])
                 /\ \A cause \in {"file absent", "no time column", "unparseable time"} :
                       ~InBoxes(Msg("error", BoxText(cause), s))
                 /\ TextInSource(data[s]) =>
                       /\ kpis[s] = EmptyDict
                       /\ InBoxes(Msg("error", "Error calculating averages", ""))

C3_Witness ==
    /\ Called("mvule") /\ Called("clinic")
    /\ Cause("mvule") = "no time column" /\ Cause("clinic") = "file absent"
    /\ data["mvule"] = None /\ data["clinic"] = None
    /\ InBoxes(Msg("error", "Time column not found", "mvule"))
    /\ InBoxes(Msg("error", "File not found", "clinic"))

\* C4: over any sequence of runs, a load of station s returns what the Loader
\* computes from the file of s, never the entry of the other station, and every
\* later load of s returns the value the first load of s returned.
C4_MemoizationTransparent ==
    \A s \in Stations :
        Called(s) =>
            /\ data[s] = LoadBody(files, s).value
            /\ data[s] = first[s]
            /\ cache[s].cached /\ cache[s].value = first[s]

\* a run served from the cache while the other station's entry holds another table
C4_Witness ==
    \E s, t \in Stations :
        /\ s # t /\ s \in hit /\ Called(s)
        /\ cache[t].cached
        /\ IsDataFrame(data[s]) /\ IsDataFrame(cache[t].value)
        /\ data[s] # cache[t].value

----------------------------------------------------------------------------
(* Properties of the Metrics Deriver (SpecDerive) *)

Derived == out # NotLoaded

HasSource(d, name) == \E i \in 1..Len(d.columns) : d.columns[i] = SourceColumn(name)

SourceCells(d, name) == CellsOf(d, SourceColumn(name))

NumericRows(col) == {r \in 1..Len(col) : col[r].k = "num"}

RECURSIVE Total(_, _)
Total(col, rows) ==
    IF rows = {} THEN 0
    ELSE LET r == CHOOSE x \in rows : TRUE
         IN  col[r].v + Total(col, rows \ {r})

\* the float x equals n/d
Equals(x, n, d) == x.k = "num" /\ x.num * d = n * x.den

\* watts per unit of the indicator: 1000 for avg_power, 1 for the others
Scale(name) == IF name = "avg_power" THEN 1000 ELSE 1

Undefined(dict, name) == dictget(dict, name, FloatNaN) = FloatNaN

\* C7 as stated: for every table of numeric and blank cells, the empty one
\* included, derive returns data_points equal to the row count.
C7_DataPointsIsRowCount ==
    (Derived /\ IsDataFrame(df) /\ ~TextInSource(df)) =>
        /\ "data_points" \in DOMAIN out.value
        /\ out.value["data_points"] = Count(Len(df.index))

\* C7, amended: derive returns data_points equal to the row count exactly when
\* it returns indicators at all, which is for a table with at least one row and
\* one column besides the index whose source columns hold no text; for None,
\* for a table with no rows or no columns it returns the empty dict, with no
\* data_points entry and no error box; for a text in a source column it
\* returns the empty dict and shows "Error calculating averages".
C7_DataPointsWhenNotEmpty ==
    Derived =>
        IF df = None \/ Len(df.index) = 0 \/ Len(df.columns) = 0
        THEN out.value = EmptyDict /\ out.msgs = << >>
        ELSE IF TextInSource(df)
             THEN /\ out.value = EmptyDict
                  /\ out.msgs = << Msg("error", "Error calculating averages", "") >>
             ELSE /\ DOMAIN out.value = KpiKeys
                  /\ out.value["data_points"] = Count(Len(df.index))
                  /\ out.msgs = << >>

C7_Witness ==
    /\ Derived /\ IsDataFrame(df)
    /\ Len(df.index) = 2 /\ Len(df.columns) = 1
    /\ out.value # EmptyDict
    /\ out.value["data_points"] = Count(2)

\* C8: an indicator whose source column is absent from the table is undefined
\* (NaN, or no entry when derive returns the empty dict), never zero or another
\* number; the absence raises no error (an error box means a text in a column
\* that is present), and every indicator whose column is present and free of
\* text still is the mean of its own numeric cells.
C8_AbsentColumnUndefined ==
    (Derived /\ IsDataFrame(df)) =>
        \A name \in Indicators :
            ~HasSource(df, name) =>
                /\ Undefined(out.value, name)
                /\ out.msgs # << >> => TextInSource(df)
                /\ (~TextInSource(df) /\ out.value # EmptyDict) =>
                      \A other \in Indicators :
                          (HasSource(df, other)
                             /\ NumericRows(SourceCells(df, other)) # {}) =>
                              LET col == SourceCells(df, other)
                              IN  Equals(out.value[other],
                                         Total(col, NumericRows(col)),
                                         Cardinality(NumericRows(col)) * Scale(other))

\* one column present with numbers, derive returned indicators, the others NaN
C8_Witness ==
    /\ Derived /\ IsDataFrame(df) /\ out.value # EmptyDict
    /\ \E name, other \in Indicators :
          /\ ~HasSource(df, name) /\ out.value[name] = FloatNaN
          /\ HasSource(df, other) /\ out.value[other].k = "num"

\* C9: for a present source column the indicator is the mean over exactly its
\* numeric cells, blanks and texts left out of the sum and of the count, and a
\* column with no numeric cell gives an undefined indicator (read here as NaN
\* or no entry, the reading most favourable to the code).
C9_MeanOverNumericCells ==
    (Derived /\ IsDataFrame(df)) =>
        \A name \in Indicators :
            HasSource(df, name) =>
                LET col == SourceCells(df, name)
                IN  IF NumericRows(col) # {}
                    THEN /\ name \in DOMAIN out.value
                         /\ Equals(out.value[name], Total(col, NumericRows(col)),
                                   Cardinality(NumericRows(col)) * Scale(name))
                    ELSE Undefined(out.value, name)

\* C10: avg_power is the mean of PowerP_Total_avg divided by 1000, once, after
\* averaging; when there is no mean (no such column, no numeric cell, an empty
\* table) avg_power stays undefined; [1000, 3000] gives 2. Checked on every
\* table whose source columns hold numbers and blanks.
C10_PowerInKilowatts ==
    (Derived /\ IsDataFrame(df) /\ ~TextInSource(df)) =>
        LET hasMean == /\ HasSource(df, "avg_power")
                       /\ NumericRows(SourceCells(df, "avg_power")) # {}
        IN  /\ hasMean =>
                 LET col == SourceCells(df, "avg_power")
                 IN  /\ "avg_power" \in DOMAIN out.value
                     /\ Equals(out.value["avg_power"], Total(col, NumericRows(col)),
                               Cardinality(NumericRows(col)) * 1000)
                     /\ col = << Num(1000), Num(3000) >> =>
                           out.value["avg_power"] = [k |-> "num", num |-> 2, den |-> 1]
            /\ ~hasMean => Undefined(out.value, "avg_power")

C10_Witness ==
    /\ Derived /\ IsDataFrame(df) /\ HasSource(df, "avg_power")
    /\ SourceCells(df, "avg_power") = << Num(1000), Num(3000) >>
    /\ out.value["avg_power"] = [k |-> "num", num |-> 2, den |-> 1]

C12_MissingColumnRenderedZero ==
    \A s \in Stations : \A i \in 1..Len(metrics[s]) :
        (IsDataFrame(data[s]) /\ ~HasSource(data[s], metrics[s][i].key))
            => /\ metrics[s][i].text.k = "num"
               /\ metrics[s][i].text.scaled = 0

\* C12 (amended): a card whose indicator is in the dict and undefined because
\* its source column is missing shows "nan"; a card shows the default 0 exactly
\* when the dict is empty, which happens only on a station page.
C12_MissingColumnRenderedNaN ==
    \A s \in Stations : \A i \in 1..Len(metrics[s]) :
        /\ (IsDataFrame(data[s]) /\ ~HasSource(data[s], metrics[s][i].key)
              /\ kpis[s] # EmptyDict)
              => metrics[s][i].text.k = "nan"
        /\ kpis[s] = EmptyDict
              => /\ metrics[s][i].text.k = "num"
                 /\ metrics[s][i].text.scaled = 0
                 /\ page = PageOf(s)

\* a page shows a station's cards, the power card with a number and the power
\* factor card for a column the table does not have
C12_Witness ==
    \E s \in Stations :
        /\ IsDataFrame(data[s]) /\ kpis[s] # EmptyDict
        /\ Len(metrics[s]) >= 2
        /\ metrics[s][1].text.k = "num" /\ metrics[s][1].text.scaled > 0
        /\ ~HasSource(data[s], metrics[s][2].key)
        /\ metrics[s][2].text.k = "nan"

----------------------------------------------------------------------------
(* Properties of the chart builders (SpecChart) *)

ColourListBuilders == Builders \ {"create_frequency_chart", "create_power_factor_chart"}

\* the name pattern of a builder
Matches(builder, col) ==
    CASE builder = "create_voltage_thd_chart" -> is_vthd(col)
      [] builder = "create_voltage_analysis_chart" -> is_vln(col)
      [] builder = "create_line_to_line_voltage_chart" -> is_vll(col)
      [] builder = "create_current_analysis_chart" -> is_current(col)
      [] builder = "create_current_thd_chart" -> is_ithd(col)
      [] builder = "create_active_power_chart" -> is_power(col)

MatchingColumns(builder, d) ==
    {d.columns[i] : i \in {j \in 1..Len(d.columns) : Matches(builder, d.columns[j])}}

NumbersOnly(d) ==
    \A i \in 1..Len(d.columns) : \A r \in 1..Len(d.cells[i]) : d.cells[i][r].k = "num"

\* C13: called on a non-empty loaded table (here: one whose cells are all
\* numbers), each of the six builders that index a colour list completes and
\* returns a figure with one trace per column that matches its name pattern,
\* however many columns match.
C13_BuildersComplete ==
    (/\ fig # NotLoaded
     /\ fig.builder \in ColourListBuilders
     /\ IsDataFrame(df) /\ ~empty(df) /\ NumbersOnly(df))
        => /\ fig.result.kind = "Figure"
           /\ {fig.result.traces[i].column : i \in 1..Len(fig.result.traces)}
                 = MatchingColumns(fig.builder, df)
           /\ Len(fig.result.traces) = Cardinality(MatchingColumns(fig.builder, df))

====
